---- MODULE Spec2Model ----
(***************************************************************************)
(* Model of File2PDF (src/file_convert/src/app.py): the ConversionWorker   *)
(* thread that dispatches every file of a job to a conversion strategy and *)
(* reports progress, per-file completion and the job summary by signals.   *)
(*                                                                         *)
(* Strings the code computes with (paths, extensions, messages) are        *)
(* sequences of one-character strings or of message tokens, so that        *)
(* splitext, basename, lower, join and the f-strings are computed.         *)
(***************************************************************************)
EXTENDS Integers, Sequences, FiniteSets, TLC

\* ------------------------------------------------------------------ bounds
\* Longest job drawn from PlainFiles (every sequence of them is a job).
MaxPlainFiles == 4

\* --------------------------------------------------------- character data
UpperLower ==
    << <<"A","a">>, <<"B","b">>, <<"C","c">>, <<"D","d">>, <<"E","e">>,
       <<"F","f">>, <<"G","g">>, <<"H","h">>, <<"I","i">>, <<"J","j">>,
       <<"K","k">>, <<"L","l">>, <<"M","m">>, <<"N","n">>, <<"O","o">>,
       <<"P","p">>, <<"Q","q">>, <<"R","r">>, <<"S","s">>, <<"T","t">>,
       <<"U","u">>, <<"V","v">>, <<"W","w">>, <<"X","x">>, <<"Y","y">>,
       <<"Z","z">> >>

\* str.lower() on one character.
LowerChar(c) ==
    IF \E k \in DOMAIN UpperLower : UpperLower[k][1] = c
    THEN UpperLower[CHOOSE k \in DOMAIN UpperLower : UpperLower[k][1] = c][2]
    ELSE c

\* str.lower(): line 42.
Lower(s) == [k \in DOMAIN s |-> LowerChar(s[k])]

\* ------------------------------------------------------------- os.path
\* The platforms platform.system() tells apart in the code, and one more
\* that takes the code's final else branch without being "Linux".
Platforms == {"Darwin", "Windows", "Linux", "FreeBSD"}

\* os.sep of the platform's os.path module.
Sep(plat) == IF plat = "Windows" THEN "\\" ELSE "/"

\* A path separator for the platform's os.path (ntpath also takes "/").
IsSep(c, plat) == c = "/" \/ (plat = "Windows" /\ c = "\\")

\* Index of the last separator of p, 0 when there is none.
LastSep(p, plat) ==
    LET S == {k \in DOMAIN p : IsSep(p[k], plat)}
    IN IF S = {} THEN 0 ELSE CHOOSE k \in S : \A j \in S : j <= k

\* Index of the last "." of p, 0 when there is none.
LastDot(p) ==
    LET S == {k \in DOMAIN p : p[k] = "."}
    IN IF S = {} THEN 0 ELSE CHOOSE k \in S : \A j \in S : j <= k

\* os.path.basename
Basename(p, plat) == SubSeq(p, LastSep(p, plat) + 1, Len(p))

\* p without its trailing separators.
RECURSIVE RStripSep(_, _)
RStripSep(p, plat) ==
    IF p # <<>> /\ IsSep(p[Len(p)], plat)
    THEN RStripSep(SubSeq(p, 1, Len(p) - 1), plat)
    ELSE p

\* os.path.dirname
Dirname(p, plat) ==
    LET head == SubSeq(p, 1, LastSep(p, plat))
    IN IF head # <<>> /\ (\E k \in DOMAIN head : ~IsSep(head[k], plat))
       THEN RStripSep(head, plat)
       ELSE head

\* os.path.splitext: <<root, ext>>. The extension starts at the last dot of
\* the last component, unless only dots precede it in that component.
SplitExt(p, plat) ==
    LET sepIndex == LastSep(p, plat)
        dotIndex == LastDot(p)
    IN IF dotIndex > sepIndex
          /\ \E k \in (sepIndex + 1)..(dotIndex - 1) : p[k] # "."
       THEN << SubSeq(p, 1, dotIndex - 1), SubSeq(p, dotIndex, Len(p)) >>
       ELSE << p, <<>> >>

\* os.path.join of a directory and a relative name.
Join(a, b, plat) ==
    IF b # <<>> /\ IsSep(b[1], plat) THEN b
    ELSE IF a = <<>> \/ IsSep(a[Len(a)], plat) THEN a \o b
    ELSE a \o <<Sep(plat)>> \o b

\* ------------------------------------------------------------ extensions
X_jpg  == <<".","j","p","g">>
X_jpeg == <<".","j","p","e","g">>
X_png  == <<".","p","n","g">>
X_bmp  == <<".","b","m","p">>
X_gif  == <<".","g","i","f">>
X_tiff == <<".","t","i","f","f">>
X_txt  == <<".","t","x","t">>
X_md   == <<".","m","d">>
X_csv  == <<".","c","s","v">>
X_html == <<".","h","t","m","l">>
X_doc  == <<".","d","o","c">>
X_docx == <<".","d","o","c","x">>
X_ppt  == <<".","p","p","t">>
X_pptx == <<".","p","p","t","x">>
X_xls  == <<".","x","l","s">>
X_xlsx == <<".","x","l","s","x">>
X_odt  == <<".","o","d","t">>
X_ods  == <<".","o","d","s">>
X_odp  == <<".","o","d","p">>

\* The lists of the if/elif chain of run.
IMAGE_EXTS  == {X_jpg, X_jpeg, X_png, X_bmp, X_gif, X_tiff}
TEXT_EXTS   == {X_txt, X_md, X_csv}
HTML_EXTS   == {X_html}
OFFICE_EXTS == {X_doc, X_docx, X_ppt, X_pptx, X_xls, X_xlsx, X_odt, X_ods, X_odp}

\* The if/elif chain of run: the method the extension selects, or
\* "unsupported" for the final else.
Route(file_extension) ==
    IF file_extension \in IMAGE_EXTS THEN "convert_image_to_pdf"
    ELSE IF file_extension \in TEXT_EXTS THEN "convert_text_to_pdf"
    ELSE IF file_extension \in HTML_EXTS THEN "convert_html_to_pdf"
    ELSE IF file_extension \in OFFICE_EXTS THEN "convert_using_libreoffice"
    ELSE "unsupported"

\* Faulty extension: kept in the case the path has it.
FileExtensionAsIs(file_path, plat) == SplitExt(file_path, plat)[2]

\* file_extension = os.path.splitext(file_path)[1].lower()
FileExtension(file_path, plat) == Lower(SplitExt(file_path, plat)[2])

\* file_name = os.path.splitext(os.path.basename(file_path))[0]
FileName(file_path, plat) == SplitExt(Basename(file_path, plat), plat)[1]

\* output_path = os.path.join(self.output_dir, f"{file_name}.pdf")
OutputPath(dir, file_path, plat) ==
    Join(dir, FileName(file_path, plat) \o <<".","p","d","f">>, plat)

\* ------------------------------------------------------------- messages
\* A message is a sequence of tokens: literal pieces of the code's f-strings,
\* the characters of paths and extensions, and the text of an underlying
\* error (one token, taken to hold no line break).
NL == "\n"

IMAGE_FAILED  == "Image conversion failed"
TEXT_FAILED   == "Text conversion failed"
HTML_FAILED   == "HTML conversion failed"
OFFICE_FAILED == "LibreOffice conversion failed"
OFFICE_NOT_FOUND == "LibreOffice not found"
UNSUPPORTED   == "Unsupported file type: "
ALL_OK        == "All conversions completed successfully!"

\* raise Exception(f"<prefix>: {str(e)}")
Wrap(prefix, cause) == <<prefix, ": ">> \o cause

\* raise Exception(f"Unsupported file type: {file_extension}")
UnsupportedMessage(file_extension) == <<UNSUPPORTED>> \o file_extension

\* "\n".join(error_messages)
RECURSIVE JoinLines(_)
JoinLines(msgs) ==
    IF msgs = <<>> THEN <<>>
    ELSE IF Len(msgs) = 1 THEN msgs[1]
    ELSE msgs[1] \o <<NL>> \o JoinLines(Tail(msgs))

\* str.split("\n") of a message, as its reader sees it: the lines.
RECURSIVE SplitLines(_)
SplitLines(msg) ==
    IF \E k \in DOMAIN msg : msg[k] = NL
    THEN LET k == CHOOSE j \in DOMAIN msg :
                     msg[j] = NL /\ \A h \in 1..(j - 1) : msg[h] # NL
         IN <<SubSeq(msg, 1, k - 1)>> \o SplitLines(SubSeq(msg, k + 1, Len(msg)))
    ELSE <<msg>>

\* ------------------------------------------------------------- strategies
\* A strategy's result: the percentages it emitted (each with current_file),
\* whether it raised, str(e) of what it raised, and the calls it made.
Returned(progress, calls) ==
    [progress |-> progress, raised |-> FALSE, error |-> <<>>, calls |-> calls]
Raised(progress, error, calls) ==
    [progress |-> progress, raised |-> TRUE, error |-> error, calls |-> calls]

\* Where an image conversion can fail: Image.open / img.size, Canvas and
\* drawImage, save.
ImageEnvs == {"ok", "open", "draw", "save"}

\* convert_image_to_pdf
convert_image_to_pdf(file_path, output_path, env) ==
    IF env = "open" THEN
        Raised(<<30>>, Wrap(IMAGE_FAILED, <<"cannot identify image file">>), <<>>)
    ELSE IF env = "draw" THEN
        Raised(<<30, 50>>, Wrap(IMAGE_FAILED, <<"cannot draw image">>), <<>>)
    ELSE IF env = "save" THEN
        Raised(<<30, 50, 80>>, Wrap(IMAGE_FAILED, <<"cannot write pdf">>), <<>>)
    ELSE Returned(<<30, 50, 80, 100>>, <<>>)

\* Where a text conversion can fail: open / readlines, Canvas and setFont,
\* drawString, save. (A failing registerFont is swallowed: lines 123-128.)
TextEnvs == {"ok", "open", "canvas", "draw", "save"}

\* convert_text_to_pdf
convert_text_to_pdf(file_path, output_path, env) ==
    IF env = "open" THEN
        Raised(<<30>>, Wrap(TEXT_FAILED, <<"cannot read file">>), <<>>)
    ELSE IF env = "canvas" THEN
        Raised(<<30, 50>>, Wrap(TEXT_FAILED, <<"cannot create canvas">>), <<>>)
    ELSE IF env = "draw" THEN
        Raised(<<30, 50, 70>>, Wrap(TEXT_FAILED, <<"cannot draw string">>), <<>>)
    ELSE IF env = "save" THEN
        Raised(<<30, 50, 70, 90>>, Wrap(TEXT_FAILED, <<"cannot write pdf">>), <<>>)
    ELSE Returned(<<30, 50, 70, 90, 100>>, <<>>)

\* A call the worker made: the method or function, its arguments, what the
\* environment did to it, and whether it raised. `at` is the 1-based index of
\* the file being processed and `top` tells a call made by run itself from a
\* call made inside a strategy.
Call(fn, at, top, file_path, output_path, env, r) ==
    [fn |-> fn, at |-> at, top |-> top, file_path |-> file_path,
     output_path |-> output_path, env |-> env, raised |-> r.raised,
     error |-> r.error]

\* What can happen to the HTML renderer: nothing (stage "none"), or an error
\* of some kind at the import, at reading the file, or at HTML(...).write_pdf.
\* `text` is what then happens to the text conversion, if it is called.
HtmlEnvs ==
    {[stage |-> "none", kind |-> "none", text |-> "n/a"]}
    \cup [stage : {"import"}, kind : {"ImportError", "OSError"}, text : TextEnvs]
    \cup [stage : {"read", "render"}, kind : {"OSError"}, text : TextEnvs]
    \cup [stage : {"import", "read", "render"}, kind : {"Exception"}, text : {"n/a"}]

\* Faulty handler: only a missing module is caught.
HtmlFallsBackImportOnly(kind) == kind = "ImportError"

\* except (ImportError, OSError): line 175
HtmlFallsBack(kind) == kind \in {"ImportError", "OSError"}

\* The percentages the renderer path emitted before the stage that failed.
HtmlProgressBefore(stage) ==
    IF stage = "import" THEN <<>>
    ELSE IF stage = "read" THEN <<30>>
    ELSE IF stage = "render" THEN <<30, 60>>
    ELSE <<30, 60, 100>>

\* convert_html_to_pdf
convert_html_to_pdf(file_path, output_path, at, env) ==
    LET before == HtmlProgressBefore(env.stage)
    IN IF env.stage = "none" THEN Returned(before, <<>>)
       ELSE IF HtmlFallsBack(env.kind) THEN
           LET t == convert_text_to_pdf(file_path, output_path, env.text)
               c == Call("convert_text_to_pdf", at, FALSE, file_path,
                         output_path, env.text, t)
           IN IF t.raised
              THEN Raised(before \o t.progress, Wrap(HTML_FAILED, t.error), <<c>>)
              ELSE Returned(before \o t.progress, <<c>>)
       ELSE Raised(before, Wrap(HTML_FAILED, <<"renderer error">>), <<>>)

\* The converter binaries the code looks for (one token each).
MAC_SOFFICE     == "/Applications/LibreOffice.app/Contents/MacOS/soffice"
MAC_SOFFICE_BIN == "/Applications/LibreOffice.app/Contents/MacOS/soffice.bin"
WIN_SOFFICE     == "C:\\Program Files\\LibreOffice\\program\\soffice.exe"
LINUX_SOFFICE   == "libreoffice"
\* What `which soffice` prints when it finds one.
WHICH_SOFFICE   == "/usr/local/bin/soffice"

\* What the run of the converter can do: fail to launch (no such binary),
\* exit non-zero, or exit zero having written the PDF or not; and what a
\* rename of that PDF can do.
OfficeRunEnvs ==
    [run : {"launch_error", "nonzero"}, generated : {FALSE}, rename : {"ok"}]
    \cup [run : {"ok"}, generated : {FALSE}, rename : {"ok"}]
    \cup [run : {"ok"}, generated : {TRUE}, rename : {"ok", "error"}]

NoRun == [run |-> "n/a", generated |-> FALSE, rename |-> "ok"]

OfficeEnv(exists, which, r) ==
    [exists |-> exists, which |-> which, run |-> r.run,
     generated |-> r.generated, rename |-> r.rename]

\* The environments of convert_using_libreoffice on a platform: the paths
\* os.path.exists finds, the outcome of `which soffice`, and the run. What
\* the code does not consult on a platform is held at one value.
OfficeEnvs(plat) ==
    IF plat = "Darwin" THEN
        {OfficeEnv(e, "n/a", r) : e \in {{MAC_SOFFICE}, {MAC_SOFFICE_BIN}},
                                  r \in OfficeRunEnvs}
        \cup {OfficeEnv({}, w, NoRun) : w \in {"raise", "nonzero", "empty", "found"}}
        \cup {OfficeEnv({WHICH_SOFFICE}, "found", r) : r \in OfficeRunEnvs}
    ELSE IF plat = "Windows" THEN
        {OfficeEnv({WIN_SOFFICE}, "n/a", r) : r \in OfficeRunEnvs}
        \cup {OfficeEnv({}, "n/a", NoRun)}
    ELSE IF plat = "Linux" THEN
        {OfficeEnv({}, "n/a", r) : r \in OfficeRunEnvs}
    ELSE
        {OfficeEnv({LINUX_SOFFICE}, "n/a", r) : r \in OfficeRunEnvs}
        \cup {OfficeEnv({}, "n/a", NoRun)}

\* Lines 185-219: soffice_path.
SofficePath(plat, env) ==
    IF plat = "Darwin" THEN
        IF MAC_SOFFICE \in env.exists THEN MAC_SOFFICE
        ELSE LET p1 == IF MAC_SOFFICE_BIN \in env.exists
                       THEN MAC_SOFFICE_BIN ELSE MAC_SOFFICE
             IN IF p1 \notin env.exists /\ env.which = "found"
                THEN WHICH_SOFFICE ELSE p1
    ELSE IF plat = "Windows" THEN WIN_SOFFICE
    ELSE LINUX_SOFFICE

\* Lines 202-207: whether `which soffice` is run.
WhichIsRun(plat, env) ==
    plat = "Darwin" /\ MAC_SOFFICE \notin env.exists
                    /\ MAC_SOFFICE_BIN \notin env.exists

\* Faulty check: the platform is not looked at.
LibreOfficeMissingAnywhere(soffice_path, plat, env) ==
    soffice_path \notin env.exists

\* Line 222: not os.path.exists(soffice_path) and platform.system() != "Linux"
LibreOfficeMissing(soffice_path, plat, env) ==
    soffice_path \notin env.exists /\ plat # "Linux"

\* The argument list of the conversion subprocess: lines 231-237.
ConvertArgv(soffice_path, output_dir, file_path) ==
    <<soffice_path, "--headless", "--convert-to", "pdf", "--outdir",
      output_dir, file_path>>

\* A subprocess.run call.
Subprocess(at, argv, raised) ==
    [fn |-> "subprocess.run", at |-> at, top |-> FALSE, argv |-> argv,
     raised |-> raised]

\* convert_using_libreoffice
convert_using_libreoffice(file_path, output_path, at, plat, env) ==
    LET soffice_path == SofficePath(plat, env)
        which == IF WhichIsRun(plat, env)
                 THEN <<Subprocess(at, <<"which", "soffice">>, env.which = "raise")>>
                 ELSE <<>>
        output_dir == Dirname(output_path, plat)
        run == Subprocess(at, ConvertArgv(soffice_path, output_dir, file_path),
                          env.run # "ok")
        generated_pdf ==
            Join(output_dir,
                 SplitExt(Basename(file_path, plat), plat)[1] \o <<".","p","d","f">>,
                 plat)
    IN IF LibreOfficeMissing(soffice_path, plat, env) THEN
           Raised(<<20>>,
                  <<OFFICE_NOT_FOUND,
                    ". Please install LibreOffice to convert Office documents.">>,
                  which)
       ELSE IF env.run = "launch_error" THEN
           Raised(<<20, 40>>, <<"OSError raised by subprocess.run">>,
                  which \o <<run>>)
       ELSE IF env.run = "nonzero" THEN
           Raised(<<20, 40>>,
                  Wrap(OFFICE_FAILED, <<"Command returned non-zero exit status 1.">>),
                  which \o <<run>>)
       ELSE IF env.generated /\ generated_pdf # output_path /\ env.rename = "error" THEN
           Raised(<<20, 40, 80>>, <<"OSError raised by os.rename">>,
                  which \o <<run>>)
       ELSE Returned(<<20, 40, 80, 100>>, which \o <<run>>)

\* ------------------------------------------------------------------ jobs
\* The path /<dir>/<stem><ext>.
P(dir, stem, ext) == <<"/", dir, "/">> \o stem \o ext

\* One file per strategy and one of an unsupported type.
F_jpg  == P("a", <<"x">>, X_jpg)
F_TXT  == P("a", <<"x">>, <<".","T","X","T">>)
F_html == P("b", <<"y">>, X_html)
F_docx == P("a", <<"y">>, X_docx)
F_xyz  == P("b", <<"x">>, <<".","x","y","z">>)

\* Jobs that mix the strategies; the first is the list [a.jpg, b.docx, c.xyz]
\* of an image, an office document and an unsupported file.
MixedJobs ==
    { <<F_jpg, F_docx, F_xyz>>,
      <<F_html, F_TXT>>,
      <<F_docx, F_html>>,
      <<F_TXT, F_jpg>> }

\* A text file and a file without extension, for the longer jobs.
PlainFiles == { P("a", <<"n">>, X_md), P("a", <<"n">>, <<>>) }

\* Extensions outside the lists of run, or written in another case.
OtherExts ==
    { <<".","J","P","G">>, <<".","H","t","m","l">>, <<".","D","O","C","X">>,
      <<".","C","s","v">>, <<".","h","t","m">>, <<".","p","d","f">>,
      <<".","j","p","g","x">>, <<".","X","Y","Z">>, <<".">>, <<>> }

\* A file of every extension of the lists and of OtherExts, a hidden file
\* named ".txt", a file with two extensions and a file in a dotted directory.
RouteFiles ==
    { P("a", <<"r">>, e) :
        e \in IMAGE_EXTS \cup TEXT_EXTS \cup HTML_EXTS \cup OFFICE_EXTS \cup OtherExts }
    \cup { P("a", <<>>, X_txt),
           P("a", <<"r",".","t","x","t">>, <<".","g","z">>),
           P("a", <<"r",".","g","z">>, X_txt),
           <<"/","a",".","m","d","/","r">> }

SeqsUpTo(S, n) == UNION {[1..k -> S] : k \in 1..n}

\* self.MAX_FILES: the most files the window hands to a worker.
MAX_FILES == 20

\* MAX_FILES files without extension, /a/A ... /a/T.
LongList == [k \in 1..MAX_FILES |-> P("a", <<UpperLower[k][1]>>, <<>>)]

\* The jobs of 1 to MAX_FILES files made of the first files of LongList.
LongJobs == {SubSeq(LongList, 1, k) : k \in 1..MAX_FILES}

\* The file lists a worker is constructed with.
Jobs ==
    MixedJobs
    \cup SeqsUpTo(PlainFiles, MaxPlainFiles)
    \cup {<<f>> : f \in RouteFiles}
    \cup LongJobs

\* The output directories a worker is constructed with.
OutputDirs == { <<"/","o">> }

\* ----------------------------------------------------------------- state
VARIABLES
    platform,        \* platform.system() of the machine
    file_paths,      \* ConversionWorker.file_paths
    output_dir,      \* ConversionWorker.output_dir
    current_file,    \* ConversionWorker.current_file
    i,               \* files of the loop of run already processed
    overall_success, \* local of run
    error_messages,  \* local of run
    pc,              \* "loop" inside run, "done" once run has returned
    events,          \* every signal emitted, in order
    calls,           \* every strategy and subprocess call made, in order
    pdfs,            \* the PDF files on disk: path -> what wrote it
    \* the layout loop of convert_text_to_pdf
    text_len,        \* len(text), the lines read from the file
    line_no,         \* lines of the for loop already drawn
    text_y,          \* local y
    text_page,       \* the page the canvas is on, counted from 1
    text_drawn,      \* every drawString made, in order
    text_pc,         \* "layout" inside the loop, "saved" after c.save()
    \* the canvas of convert_image_to_pdf
    img_size,        \* img.size of the opened image: <<width, height>>
    img_page,        \* the page in progress: its size and what is drawn on it
    img_pages,       \* the pages of the saved PDF
    img_pc,          \* "opened", "drawn", "saved"
    \* PDFConverterApp
    selected_files,  \* self.selected_files
    shares_list,     \* worker.file_paths is the list object of selected_files
    app_output_dir,  \* self.output_dir, <<>> for None
    converted_files, \* self.converted_files: path -> status
    convert_button,  \* convert_button.isEnabled()
    browse_button,   \* browse_button.isEnabled()
    output_button,   \* output_button.isEnabled()
    queue,           \* worker signals queued for the interactive thread
    reported,        \* what conversion_finished showed, once per job
    jobs_started,    \* worker.start() calls so far
    dialogs          \* what the file dialog can return

workerVars == <<platform, file_paths, output_dir, current_file, i,
                overall_success, error_messages, pc, events, calls, pdfs>>
textVars == <<text_len, line_no, text_y, text_page, text_drawn, text_pc>>
imageVars == <<img_size, img_page, img_pages, img_pc>>
shellVars == <<selected_files, shares_list, app_output_dir, converted_files,
               convert_button, browse_button, output_button, queue, reported,
               jobs_started, dialogs>>

vars == <<workerVars, textVars, imageVars, shellVars>>

\* Signals. `at` is the 1-based index of the file being processed (0 after
\* the loop); the other fields are the signal's arguments.
Progress(at, value, name) ==
    [sig |-> "update_progress", at |-> at, value |-> value, name |-> name,
     success |-> TRUE, detail |-> <<>>]
FileComplete(at, name, success, detail) ==
    [sig |-> "file_complete", at |-> at, value |-> 0, name |-> name,
     success |-> success, detail |-> detail]
ConversionComplete(success, message) ==
    [sig |-> "conversion_complete", at |-> 0, value |-> 0, name |-> <<>>,
     success |-> success, detail |-> message]

\* Faulty progress: rounded to the nearest integer.
ProgressPercentageRounded(k, total_files) ==
    (200 * (k + 1) + total_files) \div (2 * total_files)

\* progress_percentage = int(((i + 1) / total_files) * 100): line 74.
\* The float quotient and product are truncated; for total_files < 50 the
\* result is the integer floor of 100 * (i + 1) / total_files (the first job
\* size at which float rounding changes it is 50, at 29 of 50).
ProgressPercentage(k, total_files) == (100 * (k + 1)) \div total_files

\* Faulty emission order: file_complete before the strategy's progress.
FileEventsCompleteFirst(at, total_files, cur, output_path, r) ==
    <<Progress(at, 5, cur)>>
    \o <<FileComplete(at, cur, ~r.raised,
                      IF r.raised THEN r.error ELSE output_path)>>
    \o [k \in 1..Len(r.progress) |-> Progress(at, r.progress[k], cur)]
    \o <<Progress(at, ProgressPercentage(at - 1, total_files), <<>>)>>

\* The signals of one pass of the loop of run: lines 49-75.
FileEvents(at, total_files, cur, output_path, r) ==
    <<Progress(at, 5, cur)>>
    \o [k \in 1..Len(r.progress) |-> Progress(at, r.progress[k], cur)]
    \o <<FileComplete(at, cur, ~r.raised,
                      IF r.raised THEN r.error ELSE output_path)>>
    \o <<Progress(at, ProgressPercentage(at - 1, total_files), <<>>)>>

\* error_message = f"Failed to convert {os.path.basename(file_path)}: {str(e)}"
ErrorMessage(file_path, plat, error) ==
    <<"Failed to convert ">> \o Basename(file_path, plat) \o <<": ">> \o error

\* Lines 78-81: the conversion_complete signal.
Summary(success, messages) ==
    IF success
    THEN ConversionComplete(TRUE, <<ALL_OK>>)
    ELSE ConversionComplete(FALSE, JoinLines(messages))

\* Faulty flag: the outcome of the last file alone.
OverallSuccessLastWins(success, raised) == ~raised

\* Lines 35, 70: overall_success stays True until a file fails.
OverallSuccess(success, raised) == success /\ ~raised

\* The environments a strategy can meet.
EnvsFor(strategy, plat) ==
    IF strategy = "convert_image_to_pdf" THEN ImageEnvs
    ELSE IF strategy = "convert_text_to_pdf" THEN TextEnvs
    ELSE IF strategy = "convert_html_to_pdf" THEN HtmlEnvs
    ELSE IF strategy = "convert_using_libreoffice" THEN OfficeEnvs(plat)
    ELSE {"n/a"}

\* Lines 52-62: the call of the selected method, or the raise of the else.
RunStrategy(strategy, file_path, output_path, file_extension, at, plat, env) ==
    IF strategy = "convert_image_to_pdf"
    THEN convert_image_to_pdf(file_path, output_path, env)
    ELSE IF strategy = "convert_text_to_pdf"
    THEN convert_text_to_pdf(file_path, output_path, env)
    ELSE IF strategy = "convert_html_to_pdf"
    THEN convert_html_to_pdf(file_path, output_path, at, env)
    ELSE IF strategy = "convert_using_libreoffice"
    THEN convert_using_libreoffice(file_path, output_path, at, plat, env)
    ELSE Raised(<<>>, UnsupportedMessage(file_extension), <<>>)

\* Faulty loop: the first failure ends the job.
AfterFileAbort(raised) == IF raised THEN "done" ELSE "loop"

\* Lines 67-75: after a file, failed or not, the loop goes on.
AfterFile(raised) == "loop"

\* Faulty loop exit: after the first file.
LoopDoneEarly(k, paths) == k >= 1

\* The for loop of line 39 is exhausted.
LoopDone(k, paths) == k >= Len(paths)

\* ------------------------------------------------------------ PDF files
\* A map without keys: no PDF on disk, or an empty dict.
EmptyMap == [p \in {} |-> <<>>]

\* The map fs with key k set to v.
Put(fs, k, v) == [p \in DOMAIN fs \cup {k} |-> IF p = k THEN v ELSE fs[p]]

\* What a PDF holds: the library that produced it and the file it renders.
Pdf(producer, file_path) == [producer |-> producer, source |-> file_path]

\* generated_pdf of convert_using_libreoffice: lines 241-242
GeneratedPdf(file_path, output_path, plat) ==
    Join(Dirname(output_path, plat),
         SplitExt(Basename(file_path, plat), plat)[1] \o <<".","p","d","f">>,
         plat)

\* Faulty write: only a method called by run itself leaves a PDF.
PdfWriteTopOnly(c, plat) ==
    IF c.fn \in {"convert_image_to_pdf", "convert_text_to_pdf"} /\ c.top /\ ~c.raised
    THEN <<[path |-> c.output_path, pdf |-> Pdf("reportlab text", c.file_path)]>>
    ELSE <<>>

\* The PDF a call leaves on disk, if any: c.save() of the image and text
\* methods (lines 99, 150), write_pdf of the renderer (line 171), and the
\* file LibreOffice writes into --outdir, renamed or not (lines 231-247).
PdfWrite(c, plat) ==
    IF c.fn = "convert_image_to_pdf" THEN
        IF c.raised THEN <<>>
        ELSE <<[path |-> c.output_path, pdf |-> Pdf("reportlab image", c.file_path)]>>
    ELSE IF c.fn = "convert_text_to_pdf" THEN
        IF c.raised THEN <<>>
        ELSE <<[path |-> c.output_path, pdf |-> Pdf("reportlab text", c.file_path)]>>
    ELSE IF c.fn = "convert_html_to_pdf" THEN
        IF c.env.stage # "none" THEN <<>>
        ELSE <<[path |-> c.output_path, pdf |-> Pdf("weasyprint", c.file_path)]>>
    ELSE IF c.fn = "convert_using_libreoffice" THEN
        LET generated_pdf == GeneratedPdf(c.file_path, c.output_path, plat)
        IN IF c.env.run # "ok" \/ ~c.env.generated THEN <<>>
           ELSE IF generated_pdf # c.output_path /\ c.env.rename = "ok"
           THEN <<[path |-> c.output_path, pdf |-> Pdf("libreoffice", c.file_path)]>>
           ELSE <<[path |-> generated_pdf, pdf |-> Pdf("libreoffice", c.file_path)]>>
    ELSE <<>>

\* The disk after the calls cs, made in this order.
RECURSIVE WriteAll(_, _, _)
WriteAll(fs, cs, plat) ==
    IF cs = <<>> THEN fs
    ELSE LET w == PdfWrite(Head(cs), plat)
         IN WriteAll(IF w = <<>> THEN fs ELSE Put(fs, w[1].path, w[1].pdf),
                     Tail(cs), plat)

\* No text layout under way.
TextIdle ==
    /\ text_len = 0
    /\ line_no = 0
    /\ text_y = 0
    /\ text_page = 0
    /\ text_drawn = <<>>
    /\ text_pc = "idle"

\* No image canvas in use.
ImageIdle ==
    /\ img_size = <<0, 0>>
    /\ img_page = <<>>
    /\ img_pages = <<>>
    /\ img_pc = "idle"

\* No window: the worker is driven on its own.
ShellIdle ==
    /\ selected_files = <<>>
    /\ shares_list = FALSE
    /\ app_output_dir = <<>>
    /\ converted_files = EmptyMap
    /\ convert_button = FALSE
    /\ browse_button = FALSE
    /\ output_button = FALSE
    /\ queue = <<>>
    /\ reported = <<>>
    /\ jobs_started = 0
    /\ dialogs = {}

\* A worker constructed with file_paths and output_dir, about to run.
WorkerStart ==
    /\ current_file = <<>>
    /\ i = 0
    /\ overall_success = TRUE
    /\ error_messages = <<>>
    /\ pc = "loop"
    /\ events = <<>>
    /\ calls = <<>>

Init ==
    /\ platform \in Platforms
    /\ file_paths \in Jobs
    /\ output_dir \in OutputDirs
    /\ WorkerStart
    /\ pdfs = EmptyMap
    /\ TextIdle
    /\ ImageIdle
    /\ ShellIdle

\* One pass of the loop of run: lines 39-75.
ProcessFile ==
    /\ pc = "loop"
    /\ ~LoopDone(i, file_paths)
    /\ LET file_path == file_paths[i + 1]
           cur == Basename(file_path, platform)
           file_extension == FileExtension(file_path, platform)
           output_path == OutputPath(output_dir, file_path, platform)
           strategy == Route(file_extension)
       IN \E env \in EnvsFor(strategy, platform) :
            LET r == RunStrategy(strategy, file_path, output_path,
                                 file_extension, i + 1, platform, env)
                made == (IF strategy = "unsupported" THEN <<>>
                         ELSE <<Call(strategy, i + 1, TRUE, file_path,
                                     output_path, env, r)>>)
                        \o r.calls
            IN /\ current_file' = cur
               /\ events' = events \o FileEvents(i + 1, Len(file_paths), cur,
                                                 output_path, r)
               /\ calls' = calls \o made
               /\ pdfs' = WriteAll(pdfs, made, platform)
               /\ error_messages' =
                    IF r.raised
                    THEN Append(error_messages,
                                ErrorMessage(file_path, platform, r.error))
                    ELSE error_messages
               /\ overall_success' = OverallSuccess(overall_success, r.raised)
               /\ i' = i + 1
               /\ pc' = AfterFile(r.raised)
    /\ UNCHANGED <<platform, file_paths, output_dir>>

\* Lines 77-81: the summary, emitted once the loop is over.
Finish ==
    /\ pc = "loop"
    /\ LoopDone(i, file_paths)
    /\ events' = Append(events, Summary(overall_success, error_messages))
    /\ pc' = "done"
    /\ UNCHANGED <<platform, file_paths, output_dir, current_file, i,
                   overall_success, error_messages, calls, pdfs>>

\* The worker driven on its own.
Next ==
    \/ ProcessFile /\ UNCHANGED <<textVars, imageVars, shellVars>>
    \/ Finish /\ UNCHANGED <<textVars, imageVars, shellVars>>

Spec == Init /\ [][Next]_vars

\* ---------------------------------------------------------------- claims
N == Len(file_paths)

\* The top-level strategy calls made for the k-th file.
TopCallsAt(k) == {j \in DOMAIN calls : calls[j].top /\ calls[j].at = k}

\* The positions in events of the file_complete signals of the k-th file.
FileCompleteAt(k) ==
    {j \in DOMAIN events : events[j].sig = "file_complete" /\ events[j].at = k}

\* The positions in events of the signals of a kind.
SignalsOf(sig) == {j \in DOMAIN events : events[j].sig = sig}

\* The k-th file's strategy was called and returned.
Succeeded(k) == \E j \in TopCallsAt(k) : ~calls[j].raised

\* The routing table, as the specification gives it.
TableStrategy(ext) ==
    IF ext \in {X_jpg, X_jpeg, X_png, X_bmp, X_gif, X_tiff}
    THEN "convert_image_to_pdf"
    ELSE IF ext \in {X_txt, X_md, X_csv} THEN "convert_text_to_pdf"
    ELSE IF ext = X_html THEN "convert_html_to_pdf"
    ELSE IF ext \in {X_doc, X_docx, X_ppt, X_pptx, X_xls, X_xlsx,
                     X_odt, X_ods, X_odp}
    THEN "convert_using_libreoffice"
    ELSE "none"

\* C1: every processed file is routed by its lower-cased extension as the
\* routing table says, with exactly one strategy call for a supported
\* extension; for any other extension no strategy is called and the file
\* fails with "Unsupported file type: <extension>".
C1_Routing ==
    \A k \in 1..i :
        LET ext == Lower(SplitExt(file_paths[k], platform)[2])
            want == TableStrategy(ext)
        IN IF want # "none"
           THEN /\ Cardinality(TopCallsAt(k)) = 1
                /\ \A j \in TopCallsAt(k) :
                       /\ calls[j].fn = want
                       /\ calls[j].file_path = file_paths[k]
           ELSE /\ TopCallsAt(k) = {}
                /\ \A j \in DOMAIN calls : calls[j].at # k
                /\ \A j \in FileCompleteAt(k) :
                       /\ ~events[j].success
                       /\ events[j].detail = <<"Unsupported file type: ">> \o ext
                /\ FileCompleteAt(k) # {}

\* C1 witness: the job [x.jpg, y.docx, x.xyz] has run; the image and the
\* office document each got their strategy and the third file was rejected.
C1_Witness ==
    /\ pc = "done"
    /\ file_paths = <<F_jpg, F_docx, F_xyz>>
    /\ \E j \in TopCallsAt(1) : calls[j].fn = "convert_image_to_pdf"
    /\ \E j \in TopCallsAt(2) : calls[j].fn = "convert_using_libreoffice"
    /\ \E j \in FileCompleteAt(3) :
           events[j].detail = <<"Unsupported file type: ", ".", "x", "y", "z">>

\* The indices of the failed files of the job, in job order.
RECURSIVE FailedFrom(_)
FailedFrom(k) ==
    IF k > N THEN <<>>
    ELSE (IF Succeeded(k) THEN <<>> ELSE <<k>>) \o FailedFrom(k + 1)

\* C2: when the job is over, with K files succeeded of N, the summary's flag
\* is true iff K = N; for K = N the message is the fixed success string, and
\* for K < N it has exactly N - K lines, the j-th naming the j-th failed file.
C2_Summary ==
    pc = "done" =>
        LET e == events[Len(events)]
            K == Cardinality({k \in 1..N : Succeeded(k)})
            failed == FailedFrom(1)
            lines == SplitLines(e.detail)
        IN /\ e.sig = "conversion_complete"
           /\ e.success <=> (K = N)
           /\ K = N => e.detail = <<"All conversions completed successfully!">>
           /\ K < N =>
                /\ Len(lines) = N - K
                /\ Len(failed) = N - K
                /\ \A j \in 1..Len(failed) :
                     LET name == Basename(file_paths[failed[j]], platform)
                         head == <<"Failed to convert ">> \o name \o <<": ">>
                     IN /\ Len(lines[j]) > Len(head)
                        /\ SubSeq(lines[j], 1, Len(head)) = head

\* C2 witness: a job of four files is over with two of them failed.
C2_Witness ==
    /\ pc = "done"
    /\ N = 4
    /\ Cardinality({k \in 1..N : Succeeded(k)}) = 2
    /\ ~Succeeded(1) /\ Succeeded(2)

\* C3: a failure does not end the job: every file is attempted, and each
\* processed file has exactly one file_complete signal, carrying success and
\* the output path if its strategy returned, failure and the error text if
\* it raised or the type is unsupported.
C3_EveryFileCompletes ==
    /\ pc = "done" => i = N
    /\ Cardinality(SignalsOf("file_complete")) = i
    /\ \A k \in 1..i :
        /\ Cardinality(FileCompleteAt(k)) = 1
        /\ \A j \in FileCompleteAt(k) :
             LET e == events[j]
             IN /\ e.name = Basename(file_paths[k], platform)
                /\ IF Succeeded(k)
                   THEN /\ e.success
                        /\ e.detail = OutputPath(output_dir, file_paths[k], platform)
                   ELSE /\ ~e.success
                        /\ e.detail # <<>>
                        /\ \A c \in TopCallsAt(k) : e.detail = calls[c].error

\* C3 witness: the first file of a job failed in its strategy, the second
\* was rejected as unsupported, and a later file was still converted.
C3_Witness ==
    /\ pc = "done"
    /\ N >= 3
    /\ \E j \in TopCallsAt(1) : calls[j].raised
    /\ TopCallsAt(2) = {}
    /\ Succeeded(3)

\* The positions in events of the signals of the k-th file.
EventsAt(k) == {j \in DOMAIN events : events[j].at = k}

Min(S) == CHOOSE x \in S : \A y \in S : x <= y
Max(S) == CHOOSE x \in S : \A y \in S : y <= x

\* C4: files are processed in job order, one at a time: the signals of a
\* file come before those of the next file, and for each file they are the
\* 5% tick with the file's name, the strategy's progress, the single
\* file_complete, then one overall-progress tick.
C4_Order ==
    /\ \A j \in 1..(Len(events) - 1) :
          events[j + 1].sig # "conversion_complete"
              => events[j].at <= events[j + 1].at
    /\ \A k \in 1..i :
          LET first == Min(EventsAt(k))
              last == Max(EventsAt(k))
              name == Basename(file_paths[k], platform)
          IN /\ EventsAt(k) = first..last
             /\ last >= first + 2
             /\ events[first] = Progress(k, 5, name)
             /\ \A j \in (first + 1)..(last - 2) :
                    /\ events[j].sig = "update_progress"
                    /\ events[j].name = name
             /\ events[last - 1].sig = "file_complete"
             /\ events[last].sig = "update_progress"
             /\ events[last].name = <<>>
    /\ \A k \in (i + 1)..N : EventsAt(k) = {}

\* C4 witness: a job of an HTML file and a text file is over, both converted,
\* each with progress signals of its strategy.
C4_Witness ==
    /\ pc = "done"
    /\ file_paths = <<F_html, F_TXT>>
    /\ Succeeded(1) /\ Succeeded(2)
    /\ Cardinality(EventsAt(1)) > 3
    /\ Cardinality(EventsAt(2)) > 3

\* C5: conversion_complete is emitted exactly once per run, after the
\* file_complete of every file, and it is the last signal of the run.
C5_CompleteOnceLast ==
    /\ pc # "done" => SignalsOf("conversion_complete") = {}
    /\ pc = "done" =>
         /\ SignalsOf("conversion_complete") = {Len(events)}
         /\ \A k \in 1..N : FileCompleteAt(k) # {}
         /\ Cardinality(SignalsOf("file_complete")) = N

\* C5 witness: a job of three files is over and its summary was emitted.
C5_Witness ==
    /\ pc = "done"
    /\ N = 3
    /\ events[Len(events)].sig = "conversion_complete"

\* The percentages emitted for the k-th file with its name, from the 5% tick
\* to its file_complete, in order.
RECURSIVE ValuesFrom(_, _)
ValuesFrom(k, j) ==
    IF j > Len(events) THEN <<>>
    ELSE (IF events[j].at = k /\ events[j].sig = "update_progress"
             /\ events[j].name # <<>>
          THEN <<events[j].value>> ELSE <<>>) \o ValuesFrom(k, j + 1)

\* C6: for every processed file the percentages emitted from its 5% tick to
\* its file_complete are non-decreasing, and 100 is emitted for the file
\* before the next file starts. (The second half is stated for the files
\* whose strategy returned: a strategy that raises stops where it failed.)
C6_ProgressMonotone ==
    \A k \in 1..i :
        LET v == ValuesFrom(k, 1)
        IN /\ \A j \in 1..(Len(v) - 1) : v[j] <= v[j + 1]
           /\ Succeeded(k) => v[Len(v)] = 100

\* round(x / n) of Python for integers x >= 0, n > 0: to the nearest integer,
\* a tie to the even one.
PyRound(x, n) ==
    LET q == x \div n
        r == x % n
    IN IF 2 * r < n THEN q
       ELSE IF 2 * r > n THEN q + 1
       ELSE IF q % 2 = 0 THEN q ELSE q + 1

\* The overall-progress tick of the k-th file.
OverallTick(k) == events[Max(EventsAt(k))]

\* C7 as claimed: after the k-th of N files the overall progress emitted is
\* round(100 * k / N).
C7_Rounded ==
    \A k \in 1..i : OverallTick(k).value = PyRound(100 * k, N)

\* C7 as amended: after the k-th of N files (N up to MAX_FILES) the overall
\* progress emitted is 100 * k / N truncated to an integer.
C7_Truncated ==
    \A k \in 1..i :
        LET v == OverallTick(k).value
        IN /\ OverallTick(k).sig = "update_progress"
           /\ v * N <= 100 * k
           /\ 100 * k < (v + 1) * N

\* C7 witness: the second of three files was processed and the tick was 66.
C7_Witness ==
    /\ N = 3
    /\ i >= 2
    /\ OverallTick(2).value = 66

\* The strategy calls, made by run or by another strategy.
StrategyCalls == {j \in DOMAIN calls : calls[j].fn # "subprocess.run"}

\* The prefixes of the errors a strategy may raise.
PrefixesOf(fn) ==
    IF fn = "convert_image_to_pdf" THEN {"Image conversion failed"}
    ELSE IF fn = "convert_text_to_pdf" THEN {"Text conversion failed"}
    ELSE IF fn = "convert_html_to_pdf" THEN {"HTML conversion failed"}
    ELSE {"LibreOffice conversion failed", "LibreOffice not found"}

\* C8: every error that leaves a strategy carries that strategy's prefix; no
\* raw error of a library, file operation or process leaves it.
C8_Wrapped ==
    \A j \in StrategyCalls :
        calls[j].raised => calls[j].error[1] \in PrefixesOf(calls[j].fn)

\* The conversion subprocesses run for the k-th file (not `which`).
ConversionsAt(k) ==
    {j \in DOMAIN calls :
        /\ calls[j].fn = "subprocess.run"
        /\ calls[j].at = k
        /\ calls[j].argv[1] # "which"}

\* No usable converter binary can be located.
NoBinary(plat, env) ==
    \/ /\ plat = "Darwin"
       /\ MAC_SOFFICE \notin env.exists
       /\ MAC_SOFFICE_BIN \notin env.exists
       /\ env.which \in {"raise", "nonzero", "empty"} \/ WHICH_SOFFICE \notin env.exists
    \/ /\ plat = "Windows"
       /\ WIN_SOFFICE \notin env.exists

\* C9: in the office strategy, when no usable binary can be located on macOS
\* or Windows the strategy fails with "LibreOffice not found" and runs no
\* conversion subprocess; on Linux the check is skipped and the conversion
\* subprocess is run with "libreoffice".
C9_NotFound ==
    \A j \in DOMAIN calls :
        calls[j].fn = "convert_using_libreoffice" =>
            /\ NoBinary(platform, calls[j].env) =>
                 /\ calls[j].raised
                 /\ calls[j].error[1] = "LibreOffice not found"
                 /\ ConversionsAt(calls[j].at) = {}
            /\ platform = "Linux" =>
                 /\ Cardinality(ConversionsAt(calls[j].at)) = 1
                 /\ \A c \in ConversionsAt(calls[j].at) :
                        calls[c].argv[1] = "libreoffice"
                 /\ calls[j].raised => calls[j].error[1] # "LibreOffice not found"

\* C9 witness: on macOS none of the paths exists and `which` raised; the
\* office document failed with "LibreOffice not found".
C9_Witness ==
    /\ platform = "Darwin"
    /\ \E j \in DOMAIN calls :
          /\ calls[j].fn = "convert_using_libreoffice"
          /\ calls[j].env.exists = {}
          /\ calls[j].env.which = "raise"
          /\ calls[j].raised
          /\ \E e \in FileCompleteAt(calls[j].at) :
                events[e].detail[1] = "LibreOffice not found"

\* The HTML strategy calls whose renderer was absent or failed with OSError.
HtmlFallbacks ==
    {j \in DOMAIN calls :
        /\ calls[j].fn = "convert_html_to_pdf"
        /\ calls[j].env.kind \in {"ImportError", "OSError"}}

\* The text strategy calls made inside the strategy of the k-th file.
InnerTextCalls(k) ==
    {j \in DOMAIN calls :
        /\ calls[j].fn = "convert_text_to_pdf"
        /\ ~calls[j].top
        /\ calls[j].at = k}

\* The text strategy is called exactly once by the HTML call j, on its paths.
FallsBackOnce(j) ==
    /\ Cardinality(InnerTextCalls(calls[j].at)) = 1
    /\ \A t \in InnerTextCalls(calls[j].at) :
          /\ calls[t].file_path = calls[j].file_path
          /\ calls[t].output_path = calls[j].output_path

\* C10 as claimed: when the renderer is absent or fails with OSError, the HTML
\* strategy calls the text strategy once on the same paths and the file is
\* reported as a success.
C10_FallbackSucceeds ==
    \A j \in HtmlFallbacks :
        /\ FallsBackOnce(j)
        /\ \A e \in FileCompleteAt(calls[j].at) : events[e].success

\* C10 as amended: when the renderer is absent or fails with OSError, the HTML
\* strategy calls the text strategy once on the same paths; the file is
\* reported as a success iff that call returns, and otherwise as a failure
\* "HTML conversion failed: Text conversion failed: ...".
C10_Fallback ==
    \A j \in HtmlFallbacks :
        /\ FallsBackOnce(j)
        /\ \A t \in InnerTextCalls(calls[j].at) :
             \A e \in FileCompleteAt(calls[j].at) :
                /\ events[e].success <=> ~calls[t].raised
                /\ calls[t].raised =>
                     /\ SubSeq(events[e].detail, 1, 3) =
                          <<"HTML conversion failed", ": ", "Text conversion failed">>
                     /\ events[e].detail = <<"HTML conversion failed", ": ">>
                                               \o calls[t].error
        /\ FileCompleteAt(calls[j].at) # {}

\* C10 witness: the renderer failed with OSError in write_pdf, the text
\* strategy was called and returned, and the file was reported as a success.
C10_Witness ==
    \E j \in HtmlFallbacks :
        /\ calls[j].env.stage = "render"
        /\ calls[j].env.kind = "OSError"
        /\ \E t \in InnerTextCalls(calls[j].at) : ~calls[t].raised
        /\ \E e \in FileCompleteAt(calls[j].at) : events[e].success

\* What the text strategy does when run by itself on the paths of the HTML
\* call j, the file and the disk being as that call's fallback found them.
TextAlone(j) ==
    convert_text_to_pdf(calls[j].file_path, calls[j].output_path, calls[j].env.text)

\* The disk the text strategy leaves when run by itself as in TextAlone(j).
TextAloneDisk(j) ==
    WriteAll(EmptyMap,
             <<Call("convert_text_to_pdf", calls[j].at, TRUE, calls[j].file_path,
                    calls[j].output_path, calls[j].env.text, TextAlone(j))>>,
             platform)

\* After the HTML call j, the last call so far, the disk holds what the text
\* strategy by itself would have written.
SamePdfAsText(j) ==
    calls[j].at = i =>
        \A q \in DOMAIN TextAloneDisk(j) :
            q \in DOMAIN pdfs /\ pdfs[q] = TextAloneDisk(j)[q]

\* C11 as claimed: with the renderer unavailable the HTML strategy is the text
\* strategy: the same PDF at the same output path and the same outcome, a
\* success or a failure with the same error.
C11_SameAsText ==
    \A j \in HtmlFallbacks :
        /\ calls[j].raised = TextAlone(j).raised
        /\ calls[j].error = TextAlone(j).error
        /\ SamePdfAsText(j)

\* C11 as amended: with the renderer unavailable the HTML strategy writes the
\* PDF the text strategy writes, at the same output path, and succeeds or
\* fails as it does; its error is the text strategy's error behind the prefix
\* "HTML conversion failed: ".
C11_Fallback ==
    \A j \in HtmlFallbacks :
        /\ calls[j].raised = TextAlone(j).raised
        /\ calls[j].raised =>
              calls[j].error = <<"HTML conversion failed", ": ">> \o TextAlone(j).error
        /\ SamePdfAsText(j)

\* The renderer could not be imported and the text strategy wrote the PDF.
C11_Witness ==
    \E j \in HtmlFallbacks :
        /\ calls[j].env.kind = "ImportError"
        /\ ~calls[j].raised
        /\ calls[j].output_path \in DOMAIN pdfs
        /\ pdfs[calls[j].output_path].producer = "reportlab text"
        /\ pdfs[calls[j].output_path].source = calls[j].file_path

\* The calls made for the k-th file, in order.
CallsAt(k) == SelectSeq(calls, LAMBDA c : c.at = k)

\* The PDFs the calls made for the k-th file wrote.
WrittenAt(k) == WriteAll(EmptyMap, CallsAt(k), platform)

\* C14: every PDF is written to <output directory>/<input-stem>.pdf, and after
\* a job whose files all succeeded the PDF written for each file is still on
\* disk as written: none was overwritten by another file of the job.
C14_OnePdfPerFile ==
    /\ \A k \in 1..i :
          DOMAIN WrittenAt(k) \subseteq
              {Join(output_dir,
                    SplitExt(Basename(file_paths[k], platform), platform)[1]
                        \o <<".","p","d","f">>,
                    platform)}
    /\ (pc = "done" /\ \A k \in 1..N : Succeeded(k)) =>
          \A k \in 1..N :
              \A q \in DOMAIN WrittenAt(k) :
                  q \in DOMAIN pdfs /\ pdfs[q] = WrittenAt(k)[q]

\* ------------------------------------------------ the text layout loop
\* The longest file laid out, in lines.
MaxLines == 100

\* letter[1] of reportlab.lib.pagesizes, in points: width, height = letter
PAGE_HEIGHT == 792

\* inch of reportlab.lib.units, in points
INCH == 72

\* line_height = 14
LINE_HEIGHT == 14

\* margin = inch
MARGIN == INCH

\* Faulty start: the first line at the top edge of the page.
TopOfPageNoMargin == PAGE_HEIGHT

\* y = height - inch: lines 135 and 143
TopOfPage == PAGE_HEIGHT - INCH

\* Faulty test: the page is left one line early.
PageIsFullEarly(y0) == y0 - LINE_HEIGHT < MARGIN

\* if y < margin: line 140
PageIsFull(y0) == y0 < MARGIN

\* No worker: nothing but the layout loop runs.
WorkerIdle ==
    /\ platform = "Linux"
    /\ file_paths = <<>>
    /\ output_dir = <<>>
    /\ current_file = <<>>
    /\ i = 0
    /\ overall_success = TRUE
    /\ error_messages = <<>>
    /\ pc = "idle"
    /\ events = <<>>
    /\ calls = <<>>
    /\ pdfs = EmptyMap

\* Lines 112-137: the file has been read into text, the canvas is on its
\* first page and y is at the top.
TextInit ==
    /\ text_len \in 0..MaxLines
    /\ line_no = 0
    /\ text_y = TopOfPage
    /\ text_page = 1
    /\ text_drawn = <<>>
    /\ text_pc = "layout"
    /\ WorkerIdle
    /\ ImageIdle
    /\ ShellIdle

\* One pass of the for loop: lines 139-146.
DrawLine ==
    /\ text_pc = "layout"
    /\ line_no < text_len
    /\ LET full == PageIsFull(text_y)
           y0 == IF full THEN TopOfPage ELSE text_y
           on == IF full THEN text_page + 1 ELSE text_page
       IN /\ text_page' = on
          /\ text_drawn' = Append(text_drawn,
                                  [line |-> line_no + 1, page |-> on, y |-> y0])
          /\ text_y' = y0 - LINE_HEIGHT
    /\ line_no' = line_no + 1
    /\ UNCHANGED <<text_len, text_pc>>

\* c.save(), line 150: the page the canvas is on is the last of the file.
Save ==
    /\ text_pc = "layout"
    /\ line_no = text_len
    /\ text_pc' = "saved"
    /\ UNCHANGED <<text_len, line_no, text_y, text_page, text_drawn>>

TextNext ==
    \/ DrawLine /\ UNCHANGED <<workerVars, imageVars, shellVars>>
    \/ Save /\ UNCHANGED <<workerVars, imageVars, shellVars>>

TextSpec == TextInit /\ [][TextNext]_vars

\* C12: on a US Letter page the first line of every page is drawn at y = 720,
\* each following line of the page 14 points lower, every line at y >= 72,
\* and a new page is started before a line exactly when its position on the
\* current page would be below 72.
C12_Layout ==
    \A j \in 1..Len(text_drawn) :
        LET d == text_drawn[j]
        IN /\ d.y >= 72
           /\ IF j = 1
              THEN d.page = 1 /\ d.y = 720
              ELSE LET b == text_drawn[j - 1]
                       breaks == b.y - 14 < 72
                   IN /\ d.page = (IF breaks THEN b.page + 1 ELSE b.page)
                      /\ d.y = (IF breaks THEN 720 ELSE b.y - 14)

\* A second page has been started: its first line is at 720, after a line
\* at 76 on the first page.
C12_Witness ==
    \E j \in 2..Len(text_drawn) :
        /\ text_drawn[j].page = 2
        /\ text_drawn[j].y = 720
        /\ text_drawn[j - 1].page = 1
        /\ text_drawn[j - 1].y = 76

\* The lines drawn on page q.
LinesOn(q) == {j \in 1..Len(text_drawn) : text_drawn[j].page = q}

\* C13: a file of n >= 1 lines comes out on ceil(n / 47) pages, 47 being the
\* positions 720, 706, ..., 76 of one page: more than 47 lines give more than
\* one page, 47 or fewer exactly one, and every line is drawn once, in order.
C13_Pages ==
    (text_pc = "saved" /\ text_len >= 1) =>
        /\ text_page = (text_len + 46) \div 47
        /\ (text_len > 47) = (text_page > 1)
        /\ Len(text_drawn) = text_len
        /\ \A j \in 1..text_len : text_drawn[j].line = j
        /\ \A q \in 1..(text_page - 1) :
               {text_drawn[j].y : j \in LinesOn(q)} = {720 - 14 * k : k \in 0..46}
        /\ \A q \in 1..text_page : LinesOn(q) # {}

\* A file of 95 lines has been saved on three pages.
C13_Witness == text_pc = "saved" /\ text_len = 95 /\ text_page = 3

\* ------------------------------------------------------ PDFConverterApp
\* The most jobs started in one run of the window.
MaxJobs == 1

\* Two images with the same base name in two folders, and a file of an
\* unsupported type.
ShellFiles ==
    { P("a", <<"n">>, X_jpg), P("b", <<"n">>, X_jpg), P("a", <<"m">>, <<>>) }

\* The sequences without repetition of 1 to n elements of S.
PicksUpTo(S, n) ==
    {q \in SeqsUpTo(S, n) : \A j, k \in DOMAIN q : j # k => q[j] # q[k]}

\* What QFileDialog.getOpenFileNames can return when it is not cancelled.
ShellDialogs == PicksUpTo(ShellFiles, 2)

\* What QFileDialog.getExistingDirectory can return when it is not cancelled.
ChosenDirs == { <<"/","o">> }

\* Lines 492-494: the paths of file_paths not yet in the list are appended.
RECURSIVE AppendNew(_, _)
AppendNew(selected, paths) ==
    IF paths = <<>> THEN selected
    ELSE AppendNew(IF \E k \in DOMAIN selected : selected[k] = Head(paths)
                   THEN selected
                   ELSE Append(selected, Head(paths)),
                   Tail(paths))

\* Faulty cut: file_paths is added whole.
NotTruncated(selected, paths) == paths

\* Lines 483-489: file_paths, cut to the room left under MAX_FILES.
Truncated(selected, paths) ==
    IF Len(selected) + Len(paths) > MAX_FILES
    THEN SubSeq(paths, 1, MAX_FILES - Len(selected))
    ELSE paths

\* Lines 504-505 and 535-536: self.output_dir, defaulted when it is unset
\* and a file is selected.
DefaultedOutputDir(dir, selected, plat) ==
    IF dir = <<>> /\ selected # <<>> THEN Dirname(selected[1], plat) ELSE dir

\* Faulty clear: the list object is emptied in place.
ClearedInPlace(paths, shared) == IF shared THEN <<>> ELSE paths

\* self.selected_files = [] binds a new list: the list the worker holds, the
\* same object or not, keeps its elements (line 510).
ClearedList(paths, shared) == paths

\* sum(1 for file_info in self.converted_files.values()
\*     if file_info['status'] == status): lines 601, 616-617
StatusCount(map, status) == Cardinality({q \in DOMAIN map : map[q] = status})

\* The signals the handlers modelled here are connected to, as queued for
\* the interactive thread (update_progress only moves the progress bar).
Queued(signals) == SelectSeq(signals, LAMBDA e : e.sig # "update_progress")

\* Faulty start: Add Files stays enabled during the job.
BrowseWhileConvertingEnabled == TRUE

\* self.browse_button.setEnabled(False): line 552
BrowseWhileConverting == FALSE

\* Faulty handler: Convert is left disabled when the job failed.
ConvertAfterJobOnSuccess(success) == success

\* self.convert_button.setEnabled(True): line 587
ConvertAfterJob(success) == TRUE

\* The platforms the window is run on here: one of each path separator.
ShellPlatforms == {"Linux", "Windows"}

\* The window after __init__ and init_ui: nothing selected, Convert disabled.
ShellInit ==
    /\ platform \in ShellPlatforms
    /\ file_paths = <<>>
    /\ output_dir = <<>>
    /\ current_file = <<>>
    /\ i = 0
    /\ overall_success = TRUE
    /\ error_messages = <<>>
    /\ pc = "idle"
    /\ events = <<>>
    /\ calls = <<>>
    /\ pdfs = EmptyMap
    /\ TextIdle
    /\ ImageIdle
    /\ selected_files = <<>>
    /\ shares_list = FALSE
    /\ app_output_dir = <<>>
    /\ converted_files = EmptyMap
    /\ convert_button = FALSE
    /\ browse_button = TRUE
    /\ output_button = TRUE
    /\ queue = <<>>
    /\ reported = <<>>
    /\ jobs_started = 0
    /\ dialogs = ShellDialogs

\* Add Files, with a dialog that was not cancelled: lines 472-506.
browse_files ==
    /\ browse_button
    /\ \E picked \in dialogs :
          LET added == AppendNew(selected_files, Truncated(selected_files, picked))
          IN /\ selected_files' = added
             /\ file_paths' = IF shares_list THEN added ELSE file_paths
             /\ convert_button' = (Len(added) > 0)
             /\ app_output_dir' = DefaultedOutputDir(app_output_dir, added, platform)
    /\ UNCHANGED <<platform, output_dir, current_file, i, overall_success,
                   error_messages, pc, events, calls, pdfs>>
    /\ UNCHANGED <<shares_list, converted_files, browse_button, output_button,
                   queue, reported, jobs_started, dialogs>>

\* Clear All: lines 508-514. Its button is never disabled.
clear_files ==
    /\ selected_files' = <<>>
    /\ file_paths' = ClearedList(file_paths, shares_list)
    /\ shares_list' = FALSE
    /\ convert_button' = FALSE
    /\ converted_files' = EmptyMap
    /\ UNCHANGED <<platform, output_dir, current_file, i, overall_success,
                   error_messages, pc, events, calls, pdfs>>
    /\ UNCHANGED <<app_output_dir, browse_button, output_button, queue,
                   reported, jobs_started, dialogs>>

\* Choose Folder, with a dialog that was not cancelled: lines 516-526.
choose_output_folder ==
    /\ output_button
    /\ \E chosen \in ChosenDirs : app_output_dir' = chosen
    /\ UNCHANGED workerVars
    /\ UNCHANGED <<selected_files, shares_list, converted_files, convert_button,
                   browse_button, output_button, queue, reported, jobs_started,
                   dialogs>>

\* Convert, with files selected: lines 528-558. The worker is given the list
\* object of selected_files and starts at the head of run.
convert_to_pdf ==
    /\ convert_button
    /\ jobs_started < MaxJobs
    /\ selected_files # <<>>
    /\ app_output_dir' = DefaultedOutputDir(app_output_dir, selected_files, platform)
    /\ file_paths' = selected_files
    /\ output_dir' = app_output_dir'
    /\ shares_list' = TRUE
    /\ current_file' = <<>>
    /\ i' = 0
    /\ overall_success' = TRUE
    /\ error_messages' = <<>>
    /\ pc' = "loop"
    /\ events' = <<>>
    /\ calls' = <<>>
    /\ converted_files' =
          [q \in {selected_files[k] : k \in DOMAIN selected_files} |-> "pending"]
    /\ convert_button' = FALSE
    /\ browse_button' = BrowseWhileConverting
    /\ output_button' = FALSE
    /\ jobs_started' = jobs_started + 1
    /\ reported' = <<>>
    /\ UNCHANGED <<platform, pdfs, selected_files, queue, dialogs>>

\* One pass of the worker's loop; its signals are queued for the window.
worker_file ==
    /\ ProcessFile
    /\ queue' = queue \o Queued(SubSeq(events', Len(events) + 1, Len(events')))
    /\ UNCHANGED <<selected_files, shares_list, app_output_dir, converted_files,
                   convert_button, browse_button, output_button, reported,
                   jobs_started, dialogs>>

\* The end of the worker's run; its summary is queued for the window.
worker_finish ==
    /\ Finish
    /\ queue' = queue \o Queued(SubSeq(events', Len(events) + 1, Len(events')))
    /\ UNCHANGED <<selected_files, shares_list, app_output_dir, converted_files,
                   convert_button, browse_button, output_button, reported,
                   jobs_started, dialogs>>

\* The slot of file_complete, run on the oldest queued signal: lines 566-583.
file_conversion_finished ==
    /\ queue # <<>>
    /\ Head(queue).sig = "file_complete"
    /\ LET filename == Head(queue).name
           found == {k \in DOMAIN selected_files :
                        Basename(selected_files[k], platform) = filename}
       IN converted_files' =
            IF found = {} THEN converted_files
            ELSE Put(converted_files, selected_files[Min(found)],
                     IF Head(queue).success THEN "success" ELSE "failed")
    /\ queue' = Tail(queue)
    /\ UNCHANGED workerVars
    /\ UNCHANGED <<selected_files, shares_list, app_output_dir, convert_button,
                   browse_button, output_button, reported, jobs_started, dialogs>>

\* The slot of conversion_complete, run on the oldest queued signal: lines
\* 585-626. `reported` keeps the counts shown with what the worker did; the
\* worker, whose run has returned, is read no more.
conversion_finished ==
    /\ queue # <<>>
    /\ Head(queue).sig = "conversion_complete"
    /\ convert_button' = ConvertAfterJob(Head(queue).success)
    /\ browse_button' = TRUE
    /\ output_button' = TRUE
    /\ reported' = Append(<<>>,
          [overall_success |-> Head(queue).success,
           shown |-> IF Head(queue).success
                     THEN <<StatusCount(converted_files, "success")>>
                     ELSE <<StatusCount(converted_files, "success"),
                            StatusCount(converted_files, "failed")>>,
           pending |-> StatusCount(converted_files, "pending"),
           files |-> Len(file_paths),
           succeeded |-> Cardinality({k \in 1..Len(file_paths) : Succeeded(k)})])
    /\ queue' = Tail(queue)
    /\ file_paths' = <<>>
    /\ output_dir' = <<>>
    /\ current_file' = <<>>
    /\ i' = 0
    /\ overall_success' = TRUE
    /\ error_messages' = <<>>
    /\ pc' = "idle"
    /\ events' = <<>>
    /\ calls' = <<>>
    /\ shares_list' = FALSE
    /\ UNCHANGED <<platform, pdfs, selected_files, app_output_dir,
                   converted_files, jobs_started, dialogs>>

ShellNext ==
    \/ browse_files /\ UNCHANGED <<textVars, imageVars>>
    \/ clear_files /\ UNCHANGED <<textVars, imageVars>>
    \/ choose_output_folder /\ UNCHANGED <<textVars, imageVars>>
    \/ convert_to_pdf /\ UNCHANGED <<textVars, imageVars>>
    \/ worker_file /\ UNCHANGED <<textVars, imageVars>>
    \/ worker_finish /\ UNCHANGED <<textVars, imageVars>>
    \/ file_conversion_finished /\ UNCHANGED <<textVars, imageVars>>
    \/ conversion_finished /\ UNCHANGED <<textVars, imageVars>>

ShellSpec == ShellInit /\ [][ShellNext]_vars

\* The scheduling of the interactive thread: its event loop runs the slot of
\* every queued signal.
Deliver == (file_conversion_finished \/ conversion_finished) /\ UNCHANGED <<textVars, imageVars>>

FairShellSpec == ShellSpec /\ WF_vars(Deliver)

\* MAX_FILES + 2 files without extension, /a/A ... /a/V.
CapList == [k \in 1..(MAX_FILES + 2) |-> P("a", <<UpperLower[k][1]>>, <<>>)]

\* Where the selections of CapDialogs start in CapList.
CapStarts == {1, 12}

\* Where they end.
CapEnds == {3, 5, 11, 15, MAX_FILES - 1, MAX_FILES, MAX_FILES + 2}

\* Dialog results of up to MAX_FILES + 2 files: runs of CapList.
CapDialogs ==
    {SubSeq(CapList, a, b) : a \in CapStarts, b \in CapEnds} \ {<<>>}

\* The window after __init__ and init_ui, in a folder of MAX_FILES + 2 files.
CapInit ==
    /\ platform = "Linux"
    /\ file_paths = <<>>
    /\ output_dir = <<>>
    /\ current_file = <<>>
    /\ i = 0
    /\ overall_success = TRUE
    /\ error_messages = <<>>
    /\ pc = "idle"
    /\ events = <<>>
    /\ calls = <<>>
    /\ pdfs = EmptyMap
    /\ TextIdle
    /\ ImageIdle
    /\ selected_files = <<>>
    /\ shares_list = FALSE
    /\ app_output_dir = <<>>
    /\ converted_files = EmptyMap
    /\ convert_button = FALSE
    /\ browse_button = TRUE
    /\ output_button = TRUE
    /\ queue = <<>>
    /\ reported = <<>>
    /\ jobs_started = 0
    /\ dialogs = CapDialogs

\* Add Files and Clear All in any order, and the start of a job.
CapNext ==
    \/ browse_files /\ UNCHANGED <<textVars, imageVars>>
    \/ clear_files /\ UNCHANGED <<textVars, imageVars>>
    \/ convert_to_pdf /\ UNCHANGED <<textVars, imageVars>>

CapSpec == CapInit /\ [][CapNext]_vars

\* A job is active: a worker has been started and its summary is not handled.
JobActive == pc # "idle"

\* C15: at most one job is active at a time: from the start of a worker by
\* convert_to_pdf until conversion_finished runs, Convert stays disabled,
\* whatever the user and the worker do in between, so that no second worker
\* is started.
C15_OneJob ==
    /\ JobActive => ~convert_button
    /\ JobActive => (\A k \in DOMAIN queue : queue[k].at <= Len(file_paths))
    /\ ~JobActive => queue = <<>>

\* Clear All was pressed during a job whose first signals are still queued.
C15_Witness ==
    /\ pc = "loop"
    /\ i >= 1
    /\ queue # <<>>
    /\ selected_files = <<>>
    /\ ~convert_button

C17_CountsMatch ==
    \A k \in DOMAIN reported :
        LET r == reported[k]
        IN /\ r.shown[1] = r.succeeded
           /\ Len(r.shown) = 2 => r.shown[2] = r.files - r.succeeded
           /\ r.pending = 0

\* C20: once the worker has emitted its summary, Convert, Add Files and
\* Choose Folder get enabled again, whether the job succeeded or failed, and
\* Add Files and Choose Folder are never disabled when no job is active.
C20_Reenabled ==
    /\ (pc = "done") ~> (~JobActive /\ convert_button /\ browse_button /\ output_button)
    /\ [](~JobActive => (browse_button /\ output_button))

\* The summary of a failed job has been handled and the three controls are
\* enabled.
C20_Witness ==
    /\ ~JobActive
    /\ reported # <<>>
    /\ ~reported[1].overall_success
    /\ convert_button
    /\ browse_button
    /\ output_button

\* C18: after any sequence of Add Files and Clear All, whatever the number of
\* files a dialog returns, at most 20 files are selected, none twice, and a
\* job is started with at most 20 files.
C18_AtMostMaxFiles ==
    /\ Len(selected_files) <= 20
    /\ \A j, k \in DOMAIN selected_files :
          j # k => selected_files[j] # selected_files[k]
    /\ pc = "loop" => Len(file_paths) <= 20

\* A job of 20 files was started, the last of them /a/T: reached by dialogs
\* offering more files than there was room for.
C18_Witness ==
    /\ pc = "loop"
    /\ Len(file_paths) = 20
    /\ file_paths[1] = CapList[12]
    /\ file_paths[20] = CapList[9]

\* ------------------------------------------------- termination of a job
\* subprocess.run of lines 231-237 is given no timeout: a converter that was
\* launched and never exits leaves run inside the call, after the ticks 5, 20
\* and 40 of the file.
Hang ==
    /\ pc = "loop"
    /\ ~LoopDone(i, file_paths)
    /\ LET file_path == file_paths[i + 1]
           cur == Basename(file_path, platform)
           output_path == OutputPath(output_dir, file_path, platform)
       IN /\ Route(FileExtension(file_path, platform)) = "convert_using_libreoffice"
          /\ \E env \in OfficeEnvs(platform) :
                LET soffice_path == SofficePath(platform, env)
                IN /\ env.run = "ok"
                   /\ ~env.generated
                   /\ ~LibreOfficeMissing(soffice_path, platform, env)
                   /\ calls' = calls
                        \o (IF WhichIsRun(platform, env)
                            THEN <<Subprocess(i + 1, <<"which", "soffice">>, FALSE)>>
                            ELSE <<>>)
                        \o <<Subprocess(i + 1,
                                        ConvertArgv(soffice_path,
                                                    Dirname(output_path, platform),
                                                    file_path),
                                        FALSE)>>
          /\ current_file' = cur
          /\ events' = events \o <<Progress(i + 1, 5, cur), Progress(i + 1, 20, cur),
                                    Progress(i + 1, 40, cur)>>
    /\ pc' = "blocked"
    /\ UNCHANGED <<platform, file_paths, output_dir, i, overall_success,
                   error_messages, pdfs>>

\* The worker driven on its own, with converters that may never exit.
LiveNext ==
    \/ ProcessFile /\ UNCHANGED <<textVars, imageVars, shellVars>>
    \/ Finish /\ UNCHANGED <<textVars, imageVars, shellVars>>
    \/ Hang /\ UNCHANGED <<textVars, imageVars, shellVars>>

\* A step that run takes by itself: the loop goes on to the next file, or run
\* returns. Of the steps of LiveNext these are ProcessFile and Finish, one of
\* which can be taken in every state inside the loop.
RunStep ==
    /\ pc = "loop"
    /\ \/ i' = i + 1 /\ pc' = "loop"
       \/ i' = i /\ pc' = "done"

\* The worker thread is scheduled as long as run can take a step.
LiveSpec == Init /\ [][LiveNext]_vars /\ WF_<<i, pc>>(RunStep)

\* C19: a job whose strategy calls all return ends by emitting its
\* conversion_complete summary, once, after an attempt at each of its N
\* files; nothing but the end of the loop takes a started job out of it, and
\* a job blocked in a converter that never exits never emits the summary.
C19_Terminates ==
    /\ <>(pc = "done" \/ pc = "blocked")
    /\ [](pc = "done" =>
            /\ i = N
            /\ Cardinality(SignalsOf("conversion_complete")) = 1
            /\ \A k \in 1..N : Cardinality(FileCompleteAt(k)) = 1)
    /\ [][pc = "loop" /\ pc' = "done" => LoopDone(i, file_paths)]_vars
    /\ [](pc = "blocked" => [](SignalsOf("conversion_complete") = {}))

\* A job of three files has ended with its summary, the converter of its
\* office document having exited.
C19_Witness ==
    /\ pc = "done"
    /\ N = 3
    /\ i = 3
    /\ ConversionsAt(2) # {}
    /\ Cardinality(SignalsOf("conversion_complete")) = 1

\* ------------------------------------------------ the image canvas
\* The longest side, in pixels, of the small images tried.
MaxSide == 8

\* img.size of the images converted: every small size, the 100 x 100 image
\* of the tests, a photograph and a very tall strip.
ImageSizes ==
    ((1..MaxSide) \X (1..MaxSide))
    \cup { <<100, 100>>, <<1920, 1080>>, <<1, 30000>> }

\* Faulty canvas: the page is a US Letter page whatever the image.
PageSizeLetter(width, height) == <<612, 792>>

\* pagesize=(width, height): line 95
PageSize(width, height) == <<width, height>>

\* c.drawImage(file_path, 0, 0, width, height): line 96
DrawnImage(width, height) ==
    [x |-> 0, y |-> 0, width |-> width, height |-> height]

\* Lines 89-90: the image has been opened and its size read.
ImageInit ==
    /\ img_size \in ImageSizes
    /\ img_page = <<>>
    /\ img_pages = <<>>
    /\ img_pc = "opened"
    /\ WorkerIdle
    /\ TextIdle
    /\ ShellIdle

\* Lines 95-96: the canvas is created and the image drawn on its page.
DrawImage ==
    /\ img_pc = "opened"
    /\ img_page' = <<[size |-> PageSize(img_size[1], img_size[2]),
                      drawn |-> <<DrawnImage(img_size[1], img_size[2])>>]>>
    /\ img_pc' = "drawn"
    /\ UNCHANGED <<img_size, img_pages>>

\* c.save(), line 99: the page in progress is the PDF's only page.
SaveImage ==
    /\ img_pc = "drawn"
    /\ img_pages' = img_pages \o img_page
    /\ img_page' = <<>>
    /\ img_pc' = "saved"
    /\ UNCHANGED img_size

ImageNext ==
    \/ DrawImage /\ UNCHANGED <<workerVars, textVars, shellVars>>
    \/ SaveImage /\ UNCHANGED <<workerVars, textVars, shellVars>>

ImageSpec == ImageInit /\ [][ImageNext]_vars

\* C21: the PDF of an image has a single page whose width and height are the
\* image's pixel width and height, and on it the whole image is drawn once,
\* at the origin, with that width and height.
C21_PageIsImage ==
    img_pc = "saved" =>
        /\ Len(img_pages) = 1
        /\ img_pages[1].size = img_size
        /\ Len(img_pages[1].drawn) = 1
        /\ img_pages[1].drawn[1].x = 0
        /\ img_pages[1].drawn[1].y = 0
        /\ img_pages[1].drawn[1].width = img_size[1]
        /\ img_pages[1].drawn[1].height = img_size[2]

\* An image of 1920 x 1080 pixels has been saved as a PDF.
C21_Witness ==
    /\ img_pc = "saved"
    /\ img_size = <<1920, 1080>>
    /\ img_pages[1].size = <<1920, 1080>>

\* C22: in every state of the window, Convert is enabled only if at least
\* one file is selected.
C22_ConvertNeedsFiles == convert_button => selected_files # <<>>

\* The user has never chosen an output folder: self.output_dir is unset or
\* holds a default, the folders of ChosenDirs holding no file of ShellFiles.
NeverChosen == app_output_dir \notin ChosenDirs

\* C23: when the user has never chosen an output folder, the output
\* directory of a job is the directory of the first file of its list.
C23_DefaultIsFirstInput ==
    (pc = "loop" /\ NeverChosen) =>
        output_dir = Dirname(file_paths[1], platform)

\* C24: when file_complete reports a success with an output path, a PDF
\* produced for that file is at that path; stated for the file the worker
\* has just finished, whose PDF no later file can have replaced.
C24_SuccessHasPdf ==
    i >= 1 =>
        \A e \in FileCompleteAt(i) :
            events[e].success =>
                /\ events[e].detail \in DOMAIN pdfs
                /\ pdfs[events[e].detail].source = file_paths[i]

====
